---- MODULE Spec2Model ----
(***************************************************************************)
(* DSCEngine (src/src/lib.rs) and its embedded DecentralizedStableCoin     *)
(* (src/src/decentralized_stable_coin.rs).                                  *)
(*                                                                          *)
(* Magnitudes.  TLC computes with 32-bit integers, so the 256-bit word and  *)
(* the decimal scales of the contract are represented by smaller numbers    *)
(* of the same shape: the word is WORD_BITS bits wide (U256 -> 2^20), the   *)
(* base precision 10^18 is 10^2, the feed precision 10^10 is 10^1, and an   *)
(* oracle answer with 8 decimals is an answer with 1 decimal.  Threshold    *)
(* (50), liquidation precision (100) and bonus (10) are the source's own.   *)
(* "+", "-" and "*" on U256 wrap modulo 2^bits (ruint's operators are the   *)
(* wrapping ones); "/" by zero panics.                                      *)
(***************************************************************************)
EXTENDS Integers, Sequences, FiniteSets, TLC

VARIABLES
    price_feeds,           \* mapping(address => address)
    collateral_tokens,     \* address[]
    collateral_deposited,  \* mapping(address => mapping(address => uint256))
    dsc_minted,            \* mapping(address => uint256)
    dsc,                   \* DecentralizedStableCoin: owner + Erc20 ledger
    oracle,                \* what each feed's latestRoundData() answers now
    custody,               \* collateral the engine holds: the asset's balanceOf(engine)
    last,                  \* the latest call that changed storage: function, caller
    commits                \* number of calls that changed storage so far

vars == <<price_feeds, collateral_tokens, collateral_deposited, dsc_minted,
          dsc, oracle, custody, last, commits>>

----------------------------------------------------------------------------
(* Addresses *)

ZERO == "0x0"
ENGINE == "engine"
DEPLOYER == "alice"
Users == {"alice", "bob"}
WETH == "weth"
WBTC == "wbtc"
Assets == {WETH, WBTC}
FEED == "feed"
Feeds == {FEED}
Holders == Users \cup {ENGINE}

----------------------------------------------------------------------------
(* U256 arithmetic *)

WORD_BITS == 20
MOD == 2 ^ WORD_BITS
U256_MAX == MOD - 1
PANIC == 0 - 1

Add(a, b) == (a + b) % MOD
Sub(a, b) == (a - b + MOD) % MOD
\* a * b mod 2^20 through 10-bit halves of b, so that no intermediate product
\* leaves the checker's 32-bit integers.
Mul(a, b) ==
    LET lo == b % (2 ^ 10)
        hi == b \div (2 ^ 10)
    IN (a * lo + ((a * hi) % MOD) * (2 ^ 10)) % MOD
Div(a, b) == IF b = 0 THEN PANIC ELSE a \div b

----------------------------------------------------------------------------
(* Engine parameters, set by constructor *)

additional_feed_precision == 10
precision == 100
liquidation_threshold == 50
liquidation_precision == 100
min_health_factor == 100
liquidation_bonus == 10

----------------------------------------------------------------------------
(* Price oracle: IAggregatorV3.latestRoundData() through Call::new().       *)
(* A token without a registered feed is read at the zero address, where no *)
(* contract answers, so the read fails.                                     *)

RoundErr == [ok |-> FALSE, answer |-> 0]

latest_round_data(token) ==
    IF price_feeds[token] = ZERO THEN RoundErr ELSE oracle[price_feeds[token]]

\* Mutant: every answer converts.
try_from_ok_any(answer) == TRUE

\* U256::try_from(price): an I256 below zero does not convert.
try_from_ok(answer) == answer >= 0

get_usd_value(token, amount) ==
    LET r == latest_round_data(token) IN
    IF ~r.ok THEN 0
    ELSE IF ~try_from_ok(r.answer) THEN 0
    ELSE Div(Mul(Mul(r.answer, additional_feed_precision), amount), precision)

\* PANIC when the divisor price * additional_feed_precision is zero.
get_token_amount_from_usd(token, usd_amount_in_wei) ==
    LET r == latest_round_data(token) IN
    IF ~r.ok THEN 0
    ELSE IF ~try_from_ok(r.answer) THEN 0
    ELSE Div(Mul(usd_amount_in_wei, precision),
             Mul(r.answer, additional_feed_precision))

RECURSIVE collateral_value_upto(_, _, _)
collateral_value_upto(cd, user, n) ==
    IF n = 0 THEN 0
    ELSE Add(collateral_value_upto(cd, user, n - 1),
             get_usd_value(collateral_tokens[n], cd[user][collateral_tokens[n]]))

get_account_collateral_value_in_usd(cd, user) ==
    collateral_value_upto(cd, user, Len(collateral_tokens))

_calculate_health_factor(total_dsc_minted, collateral_value_in_usd) ==
    IF total_dsc_minted = 0 THEN U256_MAX
    ELSE LET collateral_adjusted_for_threshold ==
                 Div(Mul(collateral_value_in_usd, liquidation_threshold),
                     liquidation_precision)
         IN Div(Mul(collateral_adjusted_for_threshold, precision), total_dsc_minted)

_get_account_info(cd, dm, user) ==
    <<dm[user], get_account_collateral_value_in_usd(cd, user)>>

_health_factor(cd, dm, user) ==
    LET info == _get_account_info(cd, dm, user) IN
    _calculate_health_factor(info[1], info[2])

get_health_factor(user) == _health_factor(collateral_deposited, dsc_minted, user)

----------------------------------------------------------------------------
(* Erc20<StylusTokenParams>: the fungible-token ledger the stable coin      *)
(* borrows.  e = [balances, allowances, total_supply].                      *)

Erc20_mint(e, to, value) ==
    [e EXCEPT !.balances[to] = Add(@, value),
              !.total_supply = Add(@, value)]

Erc20_burn(e, from, value) ==
    IF e.balances[from] < value
    THEN [e |-> e, res |-> "InsufficientBalance"]
    ELSE [e |-> [e EXCEPT !.balances[from] = Sub(@, value),
                          !.total_supply = Sub(@, value)],
          res |-> "Ok"]

Erc20_transfer_from(e, spender, from, to, value) ==
    IF e.allowances[from][spender] < value
    THEN [e |-> e, res |-> "InsufficientAllowance"]
    ELSE LET e1 == [e EXCEPT !.allowances[from][spender] = Sub(@, value)] IN
         IF e1.balances[from] < value
         THEN [e |-> e1, res |-> "InsufficientBalance"]
         ELSE [e |-> [e1 EXCEPT !.balances[from] = Sub(@, value),
                                !.balances[to] = Add(e1.balances[to], value)],
               res |-> "Ok"]

----------------------------------------------------------------------------
(* DecentralizedStableCoin.  d = [owner, erc20].  The coin is a field of    *)
(* the engine's storage and its methods are called as plain functions, so  *)
(* msg::sender() inside them is the engine's external caller.               *)

only_owner(d, sender) == sender = d.owner

mint(d, sender, to, amount) ==
    IF ~only_owner(d, sender) THEN [d |-> d, res |-> "NotOwner"]
    ELSE IF amount = 0 THEN [d |-> d, res |-> "MustBeMoreThanZero"]
    ELSE IF to = ZERO THEN [d |-> d, res |-> "NotZeroAddress"]
    ELSE [d |-> [d EXCEPT !.erc20 = Erc20_mint(@, to, amount)], res |-> "Ok"]

burn(d, sender, amount) ==
    IF ~only_owner(d, sender) THEN [d |-> d, res |-> "NotOwner"]
    ELSE IF amount = 0 THEN [d |-> d, res |-> "MustBeMoreThanZero"]
    ELSE IF amount > d.erc20.balances[sender]
         THEN [d |-> d, res |-> "BurnAmountExceedsBalance"]
    ELSE LET b == Erc20_burn(d.erc20, sender, amount) IN
         IF b.res = "Ok" THEN [d |-> [d EXCEPT !.erc20 = b.e], res |-> "Ok"]
         ELSE [d |-> d, res |-> "BurnAmountExceedsBalance"]

transfer_from(d, sender, from, to, value) ==
    LET t == Erc20_transfer_from(d.erc20, sender, from, to, value) IN
    [d |-> [d EXCEPT !.erc20 = t.e],
     res |-> IF t.res = "Ok" THEN "Ok" ELSE "Erc20Error"]

----------------------------------------------------------------------------
(* DSCEngine.  A call works on L = [cd, dm, dsc, cu, tr]: the two ledgers,  *)
(* the coin, the collateral in custody, and the trace of the steps the call *)
(* has taken so far (ledger writes, events, external calls with their       *)
(* outcome), in program order.  xfer is the answer of the collateral token, *)
(* an external contract, to transfer / transferFrom; a transfer out of the  *)
(* engine succeeds only when the engine holds the amount.                   *)

Step(L, tag, detail) == [L EXCEPT !.tr = Append(@, <<tag, detail>>)]

more_than_zero(amount) == IF amount = 0 THEN "NeedsMoreThanZero" ELSE "Ok"

is_allowed_token(token) ==
    IF price_feeds[token] = ZERO THEN "NotAllowedToken" ELSE "Ok"

\* Mutant: the health check lets every position pass.
_revert_if_health_factor_is_broken_unchecked(L, user) ==
    [L |-> Step(L, "hf_check", "Ok"), res |-> "Ok"]

\* Mutant: the health check compares with half the minimum.
_revert_if_health_factor_is_broken_half(L, user) ==
    IF _health_factor(L.cd, L.dm, user) < min_health_factor \div 2
    THEN [L |-> Step(L, "hf_check", "Broken"), res |-> "BreaksHealthFactor"]
    ELSE [L |-> Step(L, "hf_check", "Ok"), res |-> "Ok"]

_revert_if_health_factor_is_broken(L, user) ==
    IF _health_factor(L.cd, L.dm, user) < min_health_factor
    THEN [L |-> Step(L, "hf_check", "Broken"), res |-> "BreaksHealthFactor"]
    ELSE [L |-> Step(L, "hf_check", "Ok"), res |-> "Ok"]

\* Mutant: the transfer is made first and the ledger is written on success.
deposit_collateral_transfer_first(L, sender, token_collateral_address, amount_collateral, xfer) ==
    IF amount_collateral = 0 THEN [L |-> L, res |-> "NeedsMoreThanZero"]
    ELSE IF price_feeds[token_collateral_address] = ZERO
         THEN [L |-> L, res |-> "NotAllowedToken"]
    ELSE IF ~xfer THEN [L |-> Step(L, "transfer_from", "Err"), res |-> "TransferFailed"]
    ELSE LET L1 == Step([L EXCEPT !.cu[token_collateral_address] =
                                       Add(@, amount_collateral)],
                        "transfer_from", "Ok")
             L2 == Step([L1 EXCEPT !.cd[sender][token_collateral_address] =
                                        Add(@, amount_collateral)],
                        "collateral+", token_collateral_address)
         IN [L |-> Step(L2, "event", "CollateralDeposited"), res |-> "Ok"]

deposit_collateral(L, sender, token_collateral_address, amount_collateral, xfer) ==
    IF amount_collateral = 0 THEN [L |-> L, res |-> "NeedsMoreThanZero"]
    ELSE IF price_feeds[token_collateral_address] = ZERO
         THEN [L |-> L, res |-> "NotAllowedToken"]
    ELSE LET L1 == Step([L EXCEPT !.cd[sender][token_collateral_address] =
                                       Add(@, amount_collateral)],
                        "collateral+", token_collateral_address)
             L2 == Step(L1, "event", "CollateralDeposited")
         IN IF xfer
            THEN [L |-> Step([L2 EXCEPT !.cu[token_collateral_address] =
                                            Add(@, amount_collateral)],
                             "transfer_from", "Ok"),
                  res |-> "Ok"]
            ELSE [L |-> Step(L2, "transfer_from", "Err"), res |-> "TransferFailed"]

\* Mutant: the health check reads the ledger before the debt is increased.
mint_dsc_check_first(L, sender, amount_dsc_to_mint) ==
    IF more_than_zero(amount_dsc_to_mint) # "Ok"
    THEN [L |-> L, res |-> "NeedsMoreThanZero"]
    ELSE LET h  == _revert_if_health_factor_is_broken(L, sender) IN
         IF h.res # "Ok" THEN h
         ELSE LET L1 == Step([h.L EXCEPT !.dm[sender] = Add(@, amount_dsc_to_mint)],
                             "debt+", sender)
                  m == mint(L1.dsc, sender, sender, amount_dsc_to_mint)
              IN [L |-> Step([L1 EXCEPT !.dsc = m.d], "dsc.mint", m.res),
                  res |-> IF m.res = "Ok" THEN "Ok"
                          ELSE "DecentralizedStableCoinError"]

\* Mutant: the coin is minted before the health check.
mint_dsc_mint_first(L, sender, amount_dsc_to_mint) ==
    IF more_than_zero(amount_dsc_to_mint) # "Ok"
    THEN [L |-> L, res |-> "NeedsMoreThanZero"]
    ELSE LET L1 == Step([L EXCEPT !.dm[sender] = Add(@, amount_dsc_to_mint)],
                        "debt+", sender)
             m  == mint(L1.dsc, sender, sender, amount_dsc_to_mint)
             L2 == Step([L1 EXCEPT !.dsc = m.d], "dsc.mint", m.res)
             h  == _revert_if_health_factor_is_broken(L2, sender)
         IN IF h.res # "Ok" THEN h
            ELSE [L |-> h.L,
                  res |-> IF m.res = "Ok" THEN "Ok"
                          ELSE "DecentralizedStableCoinError"]

mint_dsc(L, sender, amount_dsc_to_mint) ==
    IF more_than_zero(amount_dsc_to_mint) # "Ok"
    THEN [L |-> L, res |-> "NeedsMoreThanZero"]
    ELSE LET L1 == Step([L EXCEPT !.dm[sender] = Add(@, amount_dsc_to_mint)],
                        "debt+", sender)
             h  == _revert_if_health_factor_is_broken(L1, sender)
         IN IF h.res # "Ok" THEN h
            ELSE LET m == mint(h.L.dsc, sender, sender, amount_dsc_to_mint) IN
                 [L |-> Step([h.L EXCEPT !.dsc = m.d], "dsc.mint", m.res),
                  res |-> IF m.res = "Ok" THEN "Ok"
                          ELSE "DecentralizedStableCoinError"]

\* Mutant: the deposit's error is propagated.
deposit_collateral_and_mint_dsc_propagating(L, sender, token_collateral_address, amount_collateral, amount_dsc_to_mint, xfer) ==
    LET dep == deposit_collateral(L, sender, token_collateral_address,
                                  amount_collateral, xfer)
    IN IF dep.res # "Ok" THEN dep ELSE mint_dsc(dep.L, sender, amount_dsc_to_mint)

deposit_collateral_and_mint_dsc(L, sender, token_collateral_address, amount_collateral, amount_dsc_to_mint, xfer) ==
    LET dep == deposit_collateral(L, sender, token_collateral_address,
                                  amount_collateral, xfer)
    IN mint_dsc(dep.L, sender, amount_dsc_to_mint)

burn_dsc(L, sender, amount) ==
    IF more_than_zero(amount) # "Ok" THEN [L |-> L, res |-> "NeedsMoreThanZero"]
    ELSE LET b == burn(L.dsc, sender, amount) IN
         [L |-> Step([L EXCEPT !.dsc = b.d], "dsc.burn", b.res),
          res |-> IF b.res = "Ok" THEN "Ok" ELSE "DecentralizedStableCoinError"]

\* res "Panic" is panic!("TransferFailed"), taken when transfer_from did not fail.
_burn_dsc(L, sender, amount_dsc_to_burn, on_behalf_of, dsc_from) ==
    LET L1 == Step([L EXCEPT !.dm[on_behalf_of] = Sub(@, amount_dsc_to_burn)],
                   "debt-", on_behalf_of)
        t  == transfer_from(L1.dsc, sender, dsc_from, ENGINE, amount_dsc_to_burn)
        L2 == Step([L1 EXCEPT !.dsc = t.d], "dsc.transfer_from", t.res)
    IN IF t.res = "Ok"
       THEN [L |-> Step(L2, "panic", "TransferFailed"), res |-> "Panic"]
       ELSE LET b == burn(L2.dsc, sender, amount_dsc_to_burn) IN
            [L |-> Step([L2 EXCEPT !.dsc = b.d], "dsc.burn", b.res), res |-> "Ok"]

\* Mutant: the event is emitted after the transfer, when it has succeeded.
_redeem_collateral_event_last(L, token_collateral_address, amount_collateral, from, to, xfer) ==
    LET L1 == Step([L EXCEPT !.cd[from][token_collateral_address] =
                                  Sub(@, amount_collateral)],
                   "collateral-", token_collateral_address)
    IN IF xfer /\ L.cu[token_collateral_address] >= amount_collateral
       THEN [L |-> Step(Step([L1 EXCEPT !.cu[token_collateral_address] =
                                            Sub(@, amount_collateral)],
                             "transfer", "Ok"),
                        "event", "CollateralRedeemed"),
             res |-> "Ok"]
       ELSE [L |-> Step(L1, "transfer", "Err"), res |-> "TransferFailed"]

_redeem_collateral(L, token_collateral_address, amount_collateral, from, to, xfer) ==
    LET L1 == Step([L EXCEPT !.cd[from][token_collateral_address] =
                                  Sub(@, amount_collateral)],
                   "collateral-", token_collateral_address)
        L2 == Step(L1, "event", "CollateralRedeemed")
    IN IF xfer /\ L.cu[token_collateral_address] >= amount_collateral
       THEN [L |-> Step([L2 EXCEPT !.cu[token_collateral_address] =
                                       Sub(@, amount_collateral)],
                        "transfer", "Ok"),
             res |-> "Ok"]
       ELSE [L |-> Step(L2, "transfer", "Err"), res |-> "TransferFailed"]

redeem_collateral(L, sender, token_collateral_address, amount_collateral, xfer) ==
    IF more_than_zero(amount_collateral) # "Ok"
    THEN [L |-> L, res |-> "NeedsMoreThanZero"]
    ELSE LET r == _redeem_collateral(L, token_collateral_address,
                                     amount_collateral, sender, sender, xfer)
         IN _revert_if_health_factor_is_broken(r.L, sender)

redeem_collateral_for_dsc(L, sender, token_collateral_address, amount_collateral, amount_dsc_to_burn, xfer) ==
    IF more_than_zero(amount_collateral) # "Ok"
    THEN [L |-> L, res |-> "NeedsMoreThanZero"]
    ELSE IF is_allowed_token(token_collateral_address) # "Ok"
         THEN [L |-> L, res |-> "NotAllowedToken"]
    ELSE LET b == _burn_dsc(L, sender, amount_dsc_to_burn, sender, sender) IN
         IF b.res = "Panic" THEN b
         ELSE LET r == _redeem_collateral(b.L, token_collateral_address,
                                          amount_collateral, sender, sender, xfer)
              IN _revert_if_health_factor_is_broken(r.L, sender)

\* Mutant: an unchanged health factor counts as improved.
liquidate_equal_passes(L, sender, collateral, user, debt_to_cover, xfer) ==
    IF more_than_zero(debt_to_cover) # "Ok"
    THEN [L |-> L, res |-> "NeedsMoreThanZero"]
    ELSE LET starting_user_health_factor == _health_factor(L.cd, L.dm, user) IN
    IF starting_user_health_factor >= min_health_factor
    THEN [L |-> L, res |-> "HealthFactorOk"]
    ELSE LET token_amount_from_debt_covered ==
                 get_token_amount_from_usd(collateral, debt_to_cover) IN
    IF token_amount_from_debt_covered = PANIC
    THEN [L |-> Step(L, "panic", "DivisionByZero"), res |-> "Panic"]
    ELSE LET bonus_collateral ==
                 Div(Mul(token_amount_from_debt_covered, liquidation_bonus), 100)
             total_collateral_to_redeem ==
                 Add(token_amount_from_debt_covered, bonus_collateral)
             r == _redeem_collateral(L, collateral, total_collateral_to_redeem,
                                     user, sender, xfer)
             b == _burn_dsc(r.L, sender, debt_to_cover, user, sender)
         IN
    IF b.res = "Panic" THEN b
    ELSE LET ending_user_health_factor == _health_factor(b.L.cd, b.L.dm, user) IN
    IF ending_user_health_factor < starting_user_health_factor
    THEN [L |-> Step(b.L, "hf_compare", "NotImproved"),
          res |-> "HealthFactorNotImproved"]
    ELSE _revert_if_health_factor_is_broken(Step(b.L, "hf_compare", "Improved"),
                                            sender)

\* Mutant: a target exactly at the minimum can be liquidated.
liquidate_at_minimum(L, sender, collateral, user, debt_to_cover, xfer) ==
    IF more_than_zero(debt_to_cover) # "Ok"
    THEN [L |-> L, res |-> "NeedsMoreThanZero"]
    ELSE LET starting_user_health_factor == _health_factor(L.cd, L.dm, user) IN
    IF starting_user_health_factor > min_health_factor
    THEN [L |-> L, res |-> "HealthFactorOk"]
    ELSE LET token_amount_from_debt_covered ==
                 get_token_amount_from_usd(collateral, debt_to_cover) IN
    IF token_amount_from_debt_covered = PANIC
    THEN [L |-> Step(L, "panic", "DivisionByZero"), res |-> "Panic"]
    ELSE LET bonus_collateral ==
                 Div(Mul(token_amount_from_debt_covered, liquidation_bonus), 100)
             total_collateral_to_redeem ==
                 Add(token_amount_from_debt_covered, bonus_collateral)
             r == _redeem_collateral(L, collateral, total_collateral_to_redeem,
                                     user, sender, xfer)
             b == _burn_dsc(r.L, sender, debt_to_cover, user, sender)
         IN
    IF b.res = "Panic" THEN b
    ELSE LET ending_user_health_factor == _health_factor(b.L.cd, b.L.dm, user) IN
    IF ending_user_health_factor <= starting_user_health_factor
    THEN [L |-> Step(b.L, "hf_compare", "NotImproved"),
          res |-> "HealthFactorNotImproved"]
    ELSE _revert_if_health_factor_is_broken(Step(b.L, "hf_compare", "Improved"),
                                            sender)

liquidate(L, sender, collateral, user, debt_to_cover, xfer) ==
    IF more_than_zero(debt_to_cover) # "Ok"
    THEN [L |-> L, res |-> "NeedsMoreThanZero"]
    ELSE LET starting_user_health_factor == _health_factor(L.cd, L.dm, user) IN
    IF starting_user_health_factor >= min_health_factor
    THEN [L |-> L, res |-> "HealthFactorOk"]
    ELSE LET token_amount_from_debt_covered ==
                 get_token_amount_from_usd(collateral, debt_to_cover) IN
    IF token_amount_from_debt_covered = PANIC
    THEN [L |-> Step(L, "panic", "DivisionByZero"), res |-> "Panic"]
    ELSE LET bonus_collateral ==
                 Div(Mul(token_amount_from_debt_covered, liquidation_bonus), 100)
             total_collateral_to_redeem ==
                 Add(token_amount_from_debt_covered, bonus_collateral)
             r == _redeem_collateral(L, collateral, total_collateral_to_redeem,
                                     user, sender, xfer)
             b == _burn_dsc(r.L, sender, debt_to_cover, user, sender)
         IN
    IF b.res = "Panic" THEN b
    ELSE LET ending_user_health_factor == _health_factor(b.L.cd, b.L.dm, user) IN
    IF ending_user_health_factor <= starting_user_health_factor
    THEN [L |-> Step(b.L, "hf_compare", "NotImproved"),
          res |-> "HealthFactorNotImproved"]
    ELSE _revert_if_health_factor_is_broken(Step(b.L, "hf_compare", "Improved"),
                                            sender)

\* DecentralizedStableCoin::default() then constructor(): owner = msg::sender().
DscDefault ==
    [owner |-> ZERO,
     erc20 |-> [balances |-> [h \in Holders |-> 0],
                allowances |-> [h \in Holders |-> [k \in Holders |-> 0]],
                total_supply |-> 0]]

dsc_constructor(d, sender) == [d EXCEPT !.owner = sender]

RECURSIVE register(_, _, _, _)
register(pf, toks, token_addresses, price_feed_addresses) ==
    IF token_addresses = <<>> THEN [pf |-> pf, toks |-> toks]
    ELSE register([pf EXCEPT ![Head(token_addresses)] = Head(price_feed_addresses)],
                  Append(toks, Head(token_addresses)),
                  Tail(token_addresses), Tail(price_feed_addresses))

----------------------------------------------------------------------------
(* The host.  A call that returns Err or panics reverts: none of its        *)
(* storage writes, events and token transfers persist.                      *)

Ledger == [cd |-> collateral_deposited, dm |-> dsc_minted, dsc |-> dsc, cu |-> custody]

Entry == [cd |-> collateral_deposited, dm |-> dsc_minted, dsc |-> dsc, cu |-> custody, tr |-> <<>>]

HostCommit(pre, out) ==
    IF out.res = "Ok" THEN [cd |-> out.L.cd, dm |-> out.L.dm, dsc |-> out.L.dsc,
                            cu |-> out.L.cu, res |-> out.res]
    ELSE [cd |-> pre.cd, dm |-> pre.dm, dsc |-> pre.dsc, cu |-> pre.cu,
          res |-> out.res]

----------------------------------------------------------------------------
(* Bounds of the exploration.  Calls that change storage are counted and    *)
(* stop at MaxCommits; a call that reverts changes nothing and is always    *)
(* possible.  `last` names the latest call that changed storage, until the  *)
(* oracle moves.                                                            *)

MaxCommits == 3
MaxBalance == 200
MaxTokens == 2

InWindow(x) == x <= MaxBalance \/ x >= MOD - MaxBalance

Bounded(l) ==
    /\ \A u \in Users : \A a \in Assets : InWindow(l.cd[u][a])
    /\ \A u \in Users : InWindow(l.dm[u])
    /\ \A h \in Holders : InWindow(l.dsc.erc20.balances[h])
    /\ \A a \in Assets : l.cu[a] <= MaxBalance

CollateralAmounts == {0, 100}
DebtAmounts == {0, 100, 101}
CoverAmounts == {0, 50, 100}
Answers == {[ok |-> TRUE, answer |-> 20], [ok |-> TRUE, answer |-> 12],
            [ok |-> TRUE, answer |-> 0], [ok |-> TRUE, answer |-> 0 - 1],
            RoundErr}

Stored(l) == [cd |-> l.cd, dm |-> l.dm, dsc |-> l.dsc, cu |-> l.cu]

NoCall == [op |-> "none", sender |-> ZERO]

Returns(op, sender, out) ==
    \E now \in {HostCommit(Ledger, out)} :
    /\ Bounded(now)
    /\ commits' = IF Stored(now) = Ledger THEN commits ELSE commits + 1
    /\ commits' <= MaxCommits
    /\ collateral_deposited' = now.cd
    /\ dsc_minted' = now.dm
    /\ dsc' = now.dsc
    /\ custody' = now.cu
    /\ last' = IF Stored(now) = Ledger THEN last
               ELSE [op |-> op, sender |-> sender]
    /\ UNCHANGED <<price_feeds, collateral_tokens, oracle>>

----------------------------------------------------------------------------------------------------------------------------------------
(* Actions: one per public function, plus the oracle's own update *)

Init ==
    /\ price_feeds = [a \in Assets |-> IF a = WETH THEN FEED ELSE ZERO]
    /\ collateral_tokens = <<WETH>>
    /\ collateral_deposited = [u \in Users |-> [a \in Assets |-> 0]]
    /\ dsc_minted = [u \in Users |-> 0]
    /\ dsc \in {dsc_constructor(DscDefault, DEPLOYER), DscDefault}
    /\ oracle = [f \in Feeds |-> [ok |-> TRUE, answer |-> 20]]
    /\ custody = [a \in Assets |-> 0]
    /\ last = NoCall
    /\ commits = 0

DepositCollateral ==
    \E sender \in Users, token \in Assets, amount \in CollateralAmounts,
       xfer \in BOOLEAN :
        Returns("deposit_collateral", sender,
                deposit_collateral(Entry, sender, token, amount, xfer))

DepositCollateralAndMintDsc ==
    \E sender \in Users, token \in Assets, amount \in CollateralAmounts,
       amount2 \in DebtAmounts, xfer \in BOOLEAN :
        Returns("deposit_collateral_and_mint_dsc", sender,
                deposit_collateral_and_mint_dsc(Entry, sender, token, amount,
                                                amount2, xfer))

MintDsc ==
    \E sender \in Users, amount \in DebtAmounts :
        Returns("mint_dsc", sender, mint_dsc(Entry, sender, amount))

BurnDsc ==
    \E sender \in Users, amount \in DebtAmounts :
        Returns("burn_dsc", sender, burn_dsc(Entry, sender, amount))

RedeemCollateral ==
    \E sender \in Users, token \in Assets, amount \in CollateralAmounts,
       xfer \in BOOLEAN :
        Returns("redeem_collateral", sender,
                redeem_collateral(Entry, sender, token, amount, xfer))

RedeemCollateralForDsc ==
    \E sender \in Users, token \in Assets, amount \in CollateralAmounts,
       amount2 \in DebtAmounts, xfer \in BOOLEAN :
        Returns("redeem_collateral_for_dsc", sender,
                redeem_collateral_for_dsc(Entry, sender, token, amount, amount2,
                                          xfer))

Liquidate ==
    \E sender \in Users, token \in Assets, user \in Users,
       amount \in CoverAmounts, xfer \in BOOLEAN :
        Returns("liquidate", sender,
                liquidate(Entry, sender, token, user, amount, xfer))

\* The coin written by constructor: `self.dsc = dsc` installs the fresh coin
\* owned by the caller when the assignment carries the coin's storage; when it
\* only swaps the in-memory handles the stored coin stays as it was.
Constructor ==
    \E sender \in Users, token_addresses \in {<<>>, <<WETH>>},
       price_feed_addresses \in {<<>>, <<FEED>>}, carried \in BOOLEAN :
        /\ Len(collateral_tokens) + Len(token_addresses) <= MaxTokens
        /\ IF Len(token_addresses) # Len(price_feed_addresses)
           THEN UNCHANGED <<price_feeds, collateral_tokens, dsc, commits, last>>
           ELSE LET reg == register(price_feeds, collateral_tokens,
                                    token_addresses, price_feed_addresses) IN
                /\ price_feeds' = reg.pf
                /\ collateral_tokens' = reg.toks
                /\ dsc' = IF carried THEN dsc_constructor(DscDefault, sender)
                          ELSE dsc
                /\ commits' = IF reg.toks = collateral_tokens /\ dsc' = dsc
                              THEN commits ELSE commits + 1
                /\ commits' <= MaxCommits
                /\ last' = IF commits' = commits THEN last
                           ELSE [op |-> "constructor", sender |-> sender]
        /\ UNCHANGED <<collateral_deposited, dsc_minted, oracle, custody>>

OracleUpdate ==
    \E f \in Feeds, r \in Answers :
        /\ oracle[f] # r
        /\ oracle' = [oracle EXCEPT ![f] = r]
        /\ last' = NoCall
        /\ UNCHANGED <<price_feeds, collateral_tokens, collateral_deposited,
                       dsc_minted, dsc, custody, commits>>

Next ==
    \/ DepositCollateral
    \/ DepositCollateralAndMintDsc
    \/ MintDsc
    \/ BurnDsc
    \/ RedeemCollateral
    \/ RedeemCollateralForDsc
    \/ Liquidate
    \/ Constructor
    \/ OracleUpdate

Spec == Init /\ [][Next]_vars

----------------------------------------------------------------------------
(* Properties.  A property of a call is stated in every reachable state     *)
(* for every caller and argument of the explored sets: out is what the call *)
(* returns from that state and out.L the storage it leaves at its return.   *)

Has(tr, tag) == \E i \in 1..Len(tr) : tr[i][1] = tag

HasStep(tr, tag, detail) == \E i \in 1..Len(tr) : tr[i] = <<tag, detail>>

HealthAt(out, user) == _health_factor(out.L.cd, out.L.dm, user)

Persisted(out) == Stored(HostCommit(Ledger, out))

CheckedAfterMutation(out, sender, mutation) ==
    /\ out.res = "Ok" => HealthAt(out, sender) >= min_health_factor
    /\ (Has(out.L.tr, mutation) /\ HealthAt(out, sender) < min_health_factor)
           => out.res = "BreaksHealthFactor"

\* C1: a mint_dsc, redeem_collateral or redeem_collateral_for_dsc call that
\* returns success leaves the caller's health factor, computed on the ledgers
\* after the call, at or above min_health_factor; the check reads the ledger
\* the call has already mutated, and a call whose mutated ledger puts the
\* caller below the minimum returns BreaksHealthFactor.
C1_HealthCheckedAfterMutation ==
    /\ last.op \in {"mint_dsc", "redeem_collateral", "redeem_collateral_for_dsc"}
           => get_health_factor(last.sender) >= min_health_factor
    /\ \A sender \in Users :
        /\ \A amount \in DebtAmounts :
               CheckedAfterMutation(mint_dsc(Entry, sender, amount), sender, "debt+")
        /\ \A token \in Assets, amount \in CollateralAmounts, xfer \in BOOLEAN :
            /\ CheckedAfterMutation(
                   redeem_collateral(Entry, sender, token, amount, xfer),
                   sender, "collateral-")
            /\ \A amount2 \in DebtAmounts :
                   CheckedAfterMutation(
                       redeem_collateral_for_dsc(Entry, sender, token, amount,
                                                 amount2, xfer),
                       sender, "collateral-")

\* C1 witness: a mint has succeeded leaving its caller exactly at the minimum,
\* and a further mint from here is rejected on the mutated ledger.
C1_Witness ==
    /\ last.op = "mint_dsc"
    /\ dsc_minted[last.sender] = 100
    /\ get_health_factor(last.sender) = min_health_factor
    /\ mint_dsc(Entry, last.sender, 100).res = "BreaksHealthFactor"

\* C2: a liquidate call that returns success had a target below the minimum
\* and leaves the target's recomputed health factor strictly above the one at
\* the start of the call; a call that gets as far as recomputing it and finds
\* it not above the starting one returns HealthFactorNotImproved.
C2_LiquidationImprovesHealth ==
    \A sender \in Users, token \in Assets, user \in Users,
       amount \in CoverAmounts, xfer \in BOOLEAN :
        LET out == liquidate(Entry, sender, token, user, amount, xfer) IN
        /\ out.res = "Ok" =>
               /\ get_health_factor(user) < min_health_factor
               /\ HealthAt(out, user) > get_health_factor(user)
        /\ (Has(out.L.tr, "dsc.burn")
              /\ HealthAt(out, user) <= get_health_factor(user))
               => out.res = "HealthFactorNotImproved"

\* C2 witness: a liquidation has succeeded, and from here one liquidation of
\* a target below the minimum succeeds (seizing no more than the target holds)
\* while another is rejected as not improving.
C2_Witness ==
    /\ last.op = "liquidate"
    /\ \E sender \in Users, user \in Users, amount \in CoverAmounts :
        LET out == liquidate(Entry, sender, WETH, user, amount, TRUE) IN
        /\ out.res = "Ok"
        /\ sender # user
        /\ out.L.cd[user][WETH] < collateral_deposited[user][WETH]
        /\ get_health_factor(user) < min_health_factor
    /\ \E sender \in Users, user \in Users, amount \in CoverAmounts :
        liquidate(Entry, sender, WETH, user, amount, TRUE).res
            = "HealthFactorNotImproved"

\* C3: liquidate with debt_to_cover > 0 against a target whose health factor
\* is at or above the minimum (a target without debt included) returns
\* HealthFactorOk, and no collateral entry, debt entry or token balance is
\* changed and no event is emitted.
C3_HealthyTargetIsNotLiquidated ==
    \A sender \in Users, token \in Assets, user \in Users,
       amount \in CoverAmounts \ {0}, xfer \in BOOLEAN :
        LET out == liquidate(Entry, sender, token, user, amount, xfer) IN
        get_health_factor(user) >= min_health_factor =>
            /\ out.res = "HealthFactorOk"
            /\ out.L = Entry
            /\ Persisted(out) = Ledger

\* C3 witness: a target in debt sits exactly at the minimum, another target
\* has no debt, and liquidating either is refused.
C3_Witness ==
    \E user \in Users, other \in Users :
        /\ dsc_minted[user] > 0
        /\ get_health_factor(user) = min_health_factor
        /\ dsc_minted[other] = 0
        /\ liquidate(Entry, other, WETH, user, 50, TRUE).res = "HealthFactorOk"
        /\ liquidate(Entry, user, WETH, other, 50, TRUE).res = "HealthFactorOk"

\* C4: every collateral and debt entry is the true non-negative balance: a
\* redeem_collateral, redeem_collateral_for_dsc or liquidate call whose
\* decrement (collateral amount, burned debt, seized collateral plus bonus)
\* exceeds the current entry fails instead of storing the wrapped difference.
C4_DecrementBeyondEntryFails ==
    \A sender \in Users, token \in Assets, xfer \in BOOLEAN :
        /\ \A amount \in CollateralAmounts :
            /\ amount > collateral_deposited[sender][token] =>
                   redeem_collateral(Entry, sender, token, amount, xfer).res # "Ok"
            /\ \A amount2 \in DebtAmounts :
                   (amount > collateral_deposited[sender][token]
                      \/ amount2 > dsc_minted[sender]) =>
                       redeem_collateral_for_dsc(Entry, sender, token, amount,
                                                 amount2, xfer).res # "Ok"
        /\ \A user \in Users, amount \in CoverAmounts :
               LET out == liquidate(Entry, sender, token, user, amount, xfer) IN
               (Has(out.L.tr, "collateral-")
                  /\ \/ out.L.cd[user][token] > collateral_deposited[user][token]
                     \/ amount > dsc_minted[user]) => out.res # "Ok"

WouldLeaveBelowMinimum(out, sender) == HealthAt(out, sender) < min_health_factor

AllOrNothing(out, sender) ==
    WouldLeaveBelowMinimum(out, sender) =>
        /\ out.res # "Ok"
        /\ Persisted(out) = Ledger

\* C5 as stated: a deposit_collateral, mint_dsc or
\* deposit_collateral_and_mint_dsc call that would leave its caller's health
\* factor below the minimum fails, and the caller's debt, collateral and coin
\* balance are afterwards what they were before the call.
C5_DepositOrMintBelowMinimumFails ==
    \A sender \in Users :
        /\ \A amount \in DebtAmounts :
               AllOrNothing(mint_dsc(Entry, sender, amount), sender)
        /\ \A token \in Assets, amount \in CollateralAmounts, xfer \in BOOLEAN :
            /\ AllOrNothing(deposit_collateral(Entry, sender, token, amount, xfer),
                            sender)
            /\ \A amount2 \in DebtAmounts :
                   AllOrNothing(
                       deposit_collateral_and_mint_dsc(Entry, sender, token, amount,
                                                       amount2, xfer), sender)

\* C5 amended: the calls that mint (mint_dsc, deposit_collateral_and_mint_dsc)
\* fail when they would leave their caller below the minimum, and nothing of
\* the call persists; deposit_collateral makes no health check.
C5_MintBelowMinimumFails ==
    \A sender \in Users :
        /\ \A amount \in DebtAmounts :
               AllOrNothing(mint_dsc(Entry, sender, amount), sender)
        /\ \A token \in Assets, amount \in CollateralAmounts, xfer \in BOOLEAN,
              amount2 \in DebtAmounts :
               AllOrNothing(
                   deposit_collateral_and_mint_dsc(Entry, sender, token, amount,
                                                   amount2, xfer), sender)

\* C5 witness: after a deposit, a mint and a deposit-and-mint that would each
\* leave the caller below the minimum are rejected for that reason, with the
\* debt (and the deposit) already written when the check fails.
C5_Witness ==
    /\ last.op = "deposit_collateral"
    /\ collateral_deposited[last.sender][WETH] = 100
    /\ LET out == mint_dsc(Entry, last.sender, 101) IN
           /\ out.res = "BreaksHealthFactor"
           /\ out.L.dm[last.sender] = 101
    /\ LET out == deposit_collateral_and_mint_dsc(Entry, last.sender, WETH, 100,
                                                  101, FALSE) IN
           /\ out.res = "BreaksHealthFactor"
           /\ out.L.cd[last.sender][WETH] = 200
           /\ Persisted(out) = Ledger

BoundaryScenario(user) ==
    /\ collateral_tokens = <<WETH>>
    /\ oracle[FEED] = [ok |-> TRUE, answer |-> 20]
    /\ collateral_deposited[user][WETH] = 100
    /\ dsc_minted[user] = 0

\* C6: the solvency boundary is inclusive.  With one asset at price 2000 and
\* one unit of it deposited (here: answer 20, deposit 100), the account's
\* collateral value is 2000 units (here 200), minting 1000 (here 100) succeeds
\* at a health factor of exactly the minimum, and minting just above it
\* (here 101) fails with BreaksHealthFactor.
C6_MintAtBoundarySucceeds ==
    \A user \in Users :
        BoundaryScenario(user) =>
            /\ get_account_collateral_value_in_usd(collateral_deposited, user) = 200
            /\ HealthAt(mint_dsc(Entry, user, 100), user) = min_health_factor
            /\ mint_dsc(Entry, user, 100).res = "Ok"
            /\ mint_dsc(Entry, user, 101).res = "BreaksHealthFactor"

\* C7: the coin's owner gate authorizes the engine: mint_dsc(amount), amount
\* > 0, by any caller whose health factor after the mint is at or above the
\* minimum passes the authorization check, credits amount coins to the caller
\* and returns success, whoever invoked constructor.
C7_OwnerGateAuthorizesEngine ==
    \A sender \in Users, amount \in DebtAmounts \ {0} :
        LET out == mint_dsc(Entry, sender, amount) IN
        _health_factor(collateral_deposited,
                       [dsc_minted EXCEPT ![sender] = Add(@, amount)], sender)
            >= min_health_factor =>
            /\ ~HasStep(out.L.tr, "dsc.mint", "NotOwner")
            /\ out.res = "Ok"
            /\ out.L.dsc.erc20.balances[sender]
                   = Add(dsc.erc20.balances[sender], amount)

\* C8 as stated: in mint_dsc the health check comes after the debt increase
\* and after the coin's mint attempt, so a mint_dsc call that fails with
\* BreaksHealthFactor has already attempted the mint.
C8_MintAttemptedBeforeCheck ==
    \A sender \in Users, amount \in DebtAmounts :
        LET out == mint_dsc(Entry, sender, amount) IN
        out.res = "BreaksHealthFactor" => Has(out.L.tr, "dsc.mint")

\* C8 amended: in mint_dsc the health check comes after the debt increase and
\* before the coin's mint: a call that fails with BreaksHealthFactor has
\* increased the debt entry and has not attempted the mint, and a call that
\* attempts the mint does so after the check has passed.
C8_CheckBetweenDebtAndMint ==
    \A sender \in Users, amount \in DebtAmounts :
        LET out == mint_dsc(Entry, sender, amount) IN
        /\ out.res = "BreaksHealthFactor" =>
               /\ out.L.tr = << <<"debt+", sender>>, <<"hf_check", "Broken">> >>
               /\ out.L.dm[sender] = Add(dsc_minted[sender], amount)
               /\ out.L.dsc = dsc
        /\ Has(out.L.tr, "dsc.mint") =>
               /\ Len(out.L.tr) = 3
               /\ out.L.tr[1] = <<"debt+", sender>>
               /\ out.L.tr[2] = <<"hf_check", "Ok">>
               /\ out.L.tr[3][1] = "dsc.mint"

\* C8 witness: from a position holding collateral, one mint is rejected by the
\* health check and another reaches the coin's mint.
C8_Witness ==
    \E sender \in Users :
        /\ collateral_deposited[sender][WETH] = 100
        /\ last.op = "deposit_collateral"
        /\ mint_dsc(Entry, sender, 101).res = "BreaksHealthFactor"
        /\ HasStep(mint_dsc(Entry, sender, 100).L.tr, "dsc.mint", "Ok")

BurnStepHolds(out, amount, beneficiary) ==
    Has(out.L.tr, "dsc.transfer_from") =>
        /\ out.res = "Panic" <=> HasStep(out.L.tr, "dsc.transfer_from", "Erc20Error")
        /\ HasStep(out.L.tr, "dsc.transfer_from", "Ok") =>
               /\ out.L.dm[beneficiary] = dsc_minted[beneficiary] - amount
               /\ out.L.dsc.erc20.total_supply = dsc.erc20.total_supply - amount

\* C9: the internal burn step (in redeem_collateral_for_dsc and liquidate)
\* aborts the call exactly when pulling the coin from the payer fails; when
\* the pull succeeds the step does not abort, the beneficiary's debt is lower
\* by the burned amount and the pulled coins are destroyed.
C9_BurnAbortsExactlyOnFailedPull ==
    \A sender \in Users, token \in Assets, xfer \in BOOLEAN :
        /\ \A amount \in CollateralAmounts, amount2 \in DebtAmounts :
               BurnStepHolds(redeem_collateral_for_dsc(Entry, sender, token, amount,
                                                       amount2, xfer),
                             amount2, sender)
        /\ \A user \in Users, amount \in CoverAmounts :
               BurnStepHolds(liquidate(Entry, sender, token, user, amount, xfer),
                             amount, user)

\* C10: burn_dsc(amount), amount > 0, that returns success lowers the
\* caller's recorded debt by exactly amount and destroys exactly amount of the
\* caller's coins.
C10_BurnLowersDebtAndSupply ==
    \A sender \in Users, amount \in DebtAmounts \ {0} :
        LET out == burn_dsc(Entry, sender, amount) IN
        out.res = "Ok" =>
            /\ out.L.dm[sender] = dsc_minted[sender] - amount
            /\ out.L.dsc.erc20.balances[sender]
                   = dsc.erc20.balances[sender] - amount
            /\ out.L.dsc.erc20.total_supply = dsc.erc20.total_supply - amount

\* C11: redeem_collateral(asset, amount), amount > 0 and not above the
\* caller's deposited collateral, whose external transfer of the asset to the
\* caller fails returns TransferFailed; it never returns success.
C11_RedeemFailedTransferFails ==
    \A sender \in Users, token \in Assets, amount \in CollateralAmounts \ {0} :
        amount <= collateral_deposited[sender][token] =>
            redeem_collateral(Entry, sender, token, amount, FALSE).res
                = "TransferFailed"

SeizedAmount(token, debt_to_cover) ==
    LET t == get_token_amount_from_usd(token, debt_to_cover) IN
    t + (t * 10) \div 100

\* C12: a liquidate(asset, target, debt_to_cover) call by a liquidator other
\* than the target that returns success lowers collateral_deposited[target]
\* [asset] by exactly t + (t*10)/100, t = get_token_amount_from_usd(asset,
\* debt_to_cover), lowers dsc_minted[target] by exactly debt_to_cover, and
\* leaves every other collateral and debt entry (the liquidator's own, the
\* target's other assets) as it was.
C12_LiquidationMovesOnlyTargetEntries ==
    \A sender \in Users, token \in Assets, user \in Users,
       amount \in CoverAmounts, xfer \in BOOLEAN :
        LET out == liquidate(Entry, sender, token, user, amount, xfer) IN
        (sender # user /\ out.res = "Ok") =>
            /\ out.L.cd = [collateral_deposited EXCEPT ![user][token] =
                               @ - SeizedAmount(token, amount)]
            /\ out.L.dm = [dsc_minted EXCEPT ![user] = @ - amount]

LandsHealthy(out, sender) ==
    out.res = "Ok" => HealthAt(out, sender) >= min_health_factor

GuardedCallsLandHealthy(sender) ==
    /\ \A amount \in DebtAmounts : LandsHealthy(mint_dsc(Entry, sender, amount), sender)
    /\ \A token \in Assets, amount \in CollateralAmounts, xfer \in BOOLEAN :
        /\ LandsHealthy(redeem_collateral(Entry, sender, token, amount, xfer), sender)
        /\ \A amount2 \in DebtAmounts :
            /\ LandsHealthy(deposit_collateral_and_mint_dsc(
                                Entry, sender, token, amount, amount2, xfer), sender)
            /\ LandsHealthy(redeem_collateral_for_dsc(
                                Entry, sender, token, amount, amount2, xfer), sender)
    /\ \A token \in Assets, user \in Users, amount \in CoverAmounts, xfer \in BOOLEAN :
           LandsHealthy(liquidate(Entry, sender, token, user, amount, xfer), sender)

UnguardedCallsLandHealthy(sender) ==
    /\ \A token \in Assets, amount \in CollateralAmounts, xfer \in BOOLEAN :
           LandsHealthy(deposit_collateral(Entry, sender, token, amount, xfer), sender)
    /\ \A amount \in DebtAmounts : LandsHealthy(burn_dsc(Entry, sender, amount), sender)

\* C13 as stated: every public state-mutating call (deposit_collateral,
\* deposit_collateral_and_mint_dsc, mint_dsc, redeem_collateral,
\* redeem_collateral_for_dsc, burn_dsc, liquidate) that returns success leaves
\* its caller's health factor at or above the minimum, whatever the oracle
\* answered before the call.
C13_EveryCallLandsHealthy ==
    \A sender \in Users :
        GuardedCallsLandHealthy(sender) /\ UnguardedCallsLandHealthy(sender)

\* C13 amended: the calls that end with the health check (mint_dsc,
\* deposit_collateral_and_mint_dsc, redeem_collateral,
\* redeem_collateral_for_dsc, liquidate) leave their caller at or above the
\* minimum whenever they return success; deposit_collateral and burn_dsc make
\* no health check.
C13_GuardedCallsLandHealthy ==
    /\ last.op \in {"mint_dsc", "deposit_collateral_and_mint_dsc",
                    "redeem_collateral", "redeem_collateral_for_dsc", "liquidate"}
           => get_health_factor(last.sender) >= min_health_factor
    /\ \A sender \in Users : GuardedCallsLandHealthy(sender)

\* C13 witness: a liquidation has just succeeded; its target is still below
\* the minimum after the price fell, every mint by the target is rejected,
\* and a redemption by the healthy liquidator succeeds.
C13_Witness ==
    /\ last.op = "liquidate"
    /\ \E user \in Users \ {last.sender} :
        /\ get_health_factor(user) < min_health_factor
        /\ mint_dsc(Entry, user, 100).res = "BreaksHealthFactor"
        /\ deposit_collateral_and_mint_dsc(Entry, user, WETH, 100, 101, TRUE).res
               = "BreaksHealthFactor"
    /\ collateral_deposited[last.sender][WETH] = 100
    /\ redeem_collateral(Entry, last.sender, WETH, 100, TRUE).res = "Ok"

\* C14: deposit_collateral_and_mint_dsc runs the deposit, drops its outcome
\* and runs the mint: when the deposit step fails (zero amount, unregistered
\* asset, failed transfer) the mint step is still attempted on the ledger the
\* deposit left, and the call returns the mint step's result alone.
C14_DepositOutcomeDiscarded ==
    \A sender \in Users, token \in Assets, amount \in CollateralAmounts,
       amount2 \in DebtAmounts, xfer \in BOOLEAN :
        LET dep == deposit_collateral(Entry, sender, token, amount, xfer)
            out == deposit_collateral_and_mint_dsc(Entry, sender, token, amount,
                                                   amount2, xfer)
            mnt == mint_dsc(dep.L, sender, amount2)
        IN dep.res # "Ok" =>
            /\ out.res = mnt.res
            /\ out.L = mnt.L
            /\ out.res \notin {"TransferFailed", "NotAllowedToken"}
            /\ amount2 > 0 => HasStep(out.L.tr, "debt+", sender)
            /\ dep.res = "TransferFailed" =>
                   out.L.cd[sender][token]
                       = Add(collateral_deposited[sender][token], amount)

\* C14 witness: the coin's owner holds collateral, and a deposit-and-mint
\* succeeds from here with each of the three deposit failures.
C14_Witness ==
    /\ last.op = "deposit_collateral"
    /\ \E sender \in Users :
        /\ deposit_collateral(Entry, sender, WETH, 0, TRUE).res = "NeedsMoreThanZero"
        /\ deposit_collateral_and_mint_dsc(Entry, sender, WETH, 0, 100, TRUE).res = "Ok"
        /\ deposit_collateral(Entry, sender, WBTC, 100, TRUE).res = "NotAllowedToken"
        /\ deposit_collateral_and_mint_dsc(Entry, sender, WBTC, 100, 100, TRUE).res = "Ok"
        /\ deposit_collateral(Entry, sender, WETH, 100, FALSE).res = "TransferFailed"
        /\ deposit_collateral_and_mint_dsc(Entry, sender, WETH, 100, 100, FALSE).res = "Ok"

\* C15: when the external transfer_from inside deposit_collateral fails, the
\* call returns TransferFailed with collateral_deposited[caller][asset]
\* already increased by amount, and deposit_collateral makes no compensating
\* decrement.
C15_FailedDepositLeavesIncrement ==
    \A sender \in Users, token \in Assets, amount \in CollateralAmounts :
        LET out == deposit_collateral(Entry, sender, token, amount, FALSE) IN
        (amount > 0 /\ is_allowed_token(token) = "Ok") =>
            /\ out.res = "TransferFailed"
            /\ out.L.tr[1] = <<"collateral+", token>>
            /\ out.L.tr[Len(out.L.tr)] = <<"transfer_from", "Err">>
            /\ ~Has(out.L.tr, "collateral-")
            /\ out.L.cd = [collateral_deposited EXCEPT ![sender][token] =
                               Add(@, amount)]

\* C15 witness: an account with collateral and debt makes a deposit whose
\* transfer fails, and the call ends with the entry raised from 100 to 200.
C15_Witness ==
    \E sender \in Users :
        /\ collateral_deposited[sender][WETH] = 100
        /\ dsc_minted[sender] = 100
        /\ LET out == deposit_collateral(Entry, sender, WETH, 100, FALSE) IN
               /\ out.res = "TransferFailed"
               /\ out.L.cd[sender][WETH] = 200

\* C16: once constructor has completed, no sequence of public calls
\* (constructor included) changes the approved collateral-token list or the
\* asset-to-feed mapping: both stay what the first construction registered.
\* (The engine parameters are rewritten by every constructor call with the
\* same literals.)
C16_RegistryFixedAfterConstruction ==
    /\ collateral_tokens = <<WETH>>
    /\ price_feeds = [a \in Assets |-> IF a = WETH THEN FEED ELSE ZERO]

Degraded(token) ==
    \/ price_feeds[token] = ZERO
    \/ ~oracle[price_feeds[token]].ok
    \/ oracle[price_feeds[token]].answer < 0

ViewAmounts == {0, 1, 50, 100, 101, 5243, U256_MAX}

\* C17: for a registered asset whose oracle read fails or whose answer is
\* negative, and for an unregistered asset, get_usd_value and
\* get_token_amount_from_usd return exactly 0 for every amount, and
\* get_account_collateral_value_in_usd counts a user's holdings of such an
\* asset as 0.
C17_DegradedOracleValuesZero ==
    /\ \A token \in Assets, amount \in ViewAmounts :
           Degraded(token) =>
               /\ get_usd_value(token, amount) = 0
               /\ get_token_amount_from_usd(token, amount) = 0
    /\ \A user \in Users :
           (\A n \in 1..Len(collateral_tokens) : Degraded(collateral_tokens[n]))
               => get_account_collateral_value_in_usd(collateral_deposited, user) = 0

\* C17 witness: the feed of the registered asset answers below zero while an
\* account in debt holds collateral of it, which is valued at 0.
C17_Witness ==
    /\ oracle[FEED].ok /\ oracle[FEED].answer < 0
    /\ \E user \in Users :
        /\ collateral_deposited[user][WETH] = 100
        /\ dsc_minted[user] = 100
        /\ get_account_collateral_value_in_usd(collateral_deposited, user) = 0
        /\ get_health_factor(user) = 0

RegisteredAssets == {a \in Assets : price_feeds[a] # ZERO}

RECURSIVE ValueOfAssets(_, _)
ValueOfAssets(S, user) ==
    IF S = {} THEN 0
    ELSE LET a == CHOOSE x \in S : TRUE IN
         get_usd_value(a, collateral_deposited[user][a])
             + ValueOfAssets(S \ {a}, user)

\* C18: get_health_factor(user) is the maximum representable value when
\* dsc_minted[user] is 0, and otherwise floor(floor(C*50/100) * precision /
\* dsc_minted[user]), C being the sum over the registered assets of
\* get_usd_value(asset, collateral_deposited[user][asset]).
C18_HealthFactorFormula ==
    \A user \in Users :
        LET C == ValueOfAssets(RegisteredAssets, user) IN
        get_health_factor(user) =
            IF dsc_minted[user] = 0 THEN U256_MAX
            ELSE (((C * 50) \div 100) * precision) \div dsc_minted[user]

RoundTripAmounts == (1..120) \cup {5242, 5243, 5250}

\* C19: for a positive oracle answer and any positive amount,
\* get_token_amount_from_usd(asset, get_usd_value(asset, amount)) never
\* exceeds amount, falls short of it by no more than the loss of the two
\* integer divisions, and equals amount whenever answer *
\* additional_feed_precision * amount is a multiple of precision.
C19_RoundTripRecoversAmount ==
    \A token \in Assets, amount \in RoundTripAmounts :
        LET r == latest_round_data(token)
            p == r.answer * additional_feed_precision
            back == get_token_amount_from_usd(token, get_usd_value(token, amount))
        IN (r.ok /\ r.answer > 0) =>
            /\ back <= amount
            /\ (amount - back) * p < precision + p
            /\ (p * amount) % precision = 0 => back = amount

LedgerEventTransfer(tr, i, event, call) ==
    /\ i + 2 <= Len(tr)
    /\ tr[i + 1] = <<"event", event>>
    /\ tr[i + 2][1] = call

OrderedTransferSteps(tr) ==
    \A i \in 1..Len(tr) :
        /\ tr[i][1] = "collateral+" =>
               LedgerEventTransfer(tr, i, "CollateralDeposited", "transfer_from")
        /\ tr[i][1] = "collateral-" =>
               LedgerEventTransfer(tr, i, "CollateralRedeemed", "transfer")
        /\ tr[i][1] = "event" =>
               i > 1 /\ tr[i - 1][1] \in {"collateral+", "collateral-"}
        /\ tr[i][1] \in {"transfer_from", "transfer"} =>
               i > 2 /\ tr[i - 1][1] = "event"

EventDespiteFailedTransfer(tr, event, call) ==
    HasStep(tr, call, "Err") => HasStep(tr, "event", event)

\* C20: in deposit_collateral, redeem_collateral, redeem_collateral_for_dsc
\* and the seize step of liquidate the steps come in the order: write of the
\* collateral entry, emission of CollateralDeposited / CollateralRedeemed,
\* external transfer of the asset; a call whose transfer fails has emitted
\* the event before.
C20_LedgerThenEventThenTransfer ==
    \A sender \in Users, token \in Assets, xfer \in BOOLEAN :
        /\ \A amount \in CollateralAmounts :
            /\ LET tr == deposit_collateral(Entry, sender, token, amount, xfer).L.tr IN
                   /\ OrderedTransferSteps(tr)
                   /\ EventDespiteFailedTransfer(tr, "CollateralDeposited",
                                                 "transfer_from")
                   /\ (amount > 0 /\ is_allowed_token(token) = "Ok")
                          => Has(tr, "transfer_from")
            /\ LET tr == redeem_collateral(Entry, sender, token, amount, xfer).L.tr IN
                   /\ OrderedTransferSteps(tr)
                   /\ EventDespiteFailedTransfer(tr, "CollateralRedeemed", "transfer")
                   /\ amount > 0 => Has(tr, "transfer")
            /\ \A amount2 \in DebtAmounts :
                   LET tr == redeem_collateral_for_dsc(Entry, sender, token, amount,
                                                       amount2, xfer).L.tr IN
                   /\ OrderedTransferSteps(tr)
                   /\ EventDespiteFailedTransfer(tr, "CollateralRedeemed", "transfer")
        /\ \A user \in Users, amount \in CoverAmounts :
               LET tr == liquidate(Entry, sender, token, user, amount, xfer).L.tr IN
               /\ OrderedTransferSteps(tr)
               /\ EventDespiteFailedTransfer(tr, "CollateralRedeemed", "transfer")

\* C20 witness: a position is open to liquidation, and from here a deposit, a
\* redemption (with and without burn) and a seizure whose transfers fail have
\* each written the entry and emitted the event before the failed transfer.
C20_Witness ==
    \E sender \in Users, user \in Users :
        /\ get_health_factor(user) < min_health_factor
        /\ deposit_collateral(Entry, sender, WETH, 100, FALSE).L.tr
               = << <<"collateral+", WETH>>, <<"event", "CollateralDeposited">>,
                    <<"transfer_from", "Err">> >>
        /\ HasStep(redeem_collateral(Entry, sender, WETH, 100, FALSE).L.tr,
                   "event", "CollateralRedeemed")
        /\ HasStep(redeem_collateral_for_dsc(Entry, sender, WETH, 100, 100,
                                             FALSE).L.tr,
                   "transfer", "Err")
        /\ LET tr == liquidate(Entry, sender, WETH, user, 50, FALSE).L.tr IN
               /\ tr[1] = <<"collateral-", WETH>>
               /\ tr[2] = <<"event", "CollateralRedeemed">>
               /\ tr[3] = <<"transfer", "Err">>

TotalDebt == dsc_minted["alice"] + dsc_minted["bob"]

\* C21: in every state reached by engine calls that each returned success,
\* the sum of dsc_minted over all users equals the coin's total supply.
C21_DebtEqualsSupply == TotalDebt = dsc.erc20.total_supply

TotalCollateral(token) == collateral_deposited["alice"][token] + collateral_deposited["bob"][token]

\* C22: in every state reached by engine calls that each returned success,
\* for each registered asset the sum over users of collateral_deposited
\* equals the amount of that asset in custody (successful transfers in minus
\* successful transfers out).
C22_CustodyEqualsLedger ==
    \A token \in RegisteredAssets : TotalCollateral(token) = custody[token]

\* C23: for every oracle outcome (read failure, negative answer, answer 0,
\* positive answer) get_usd_value and get_token_amount_from_usd return a
\* value without aborting, and the conversion step of liquidate never aborts
\* the call.
C23_ConversionsAreTotal ==
    /\ \A token \in Assets, amount \in ViewAmounts :
        /\ get_usd_value(token, amount) # PANIC
        /\ get_token_amount_from_usd(token, amount) # PANIC
    /\ \A sender \in Users, token \in Assets, user \in Users,
          amount \in CoverAmounts, xfer \in BOOLEAN :
           ~HasStep(liquidate(Entry, sender, token, user, amount, xfer).L.tr,
                    "panic", "DivisionByZero")

====
